---- MODULE Spec2Model ----
(***************************************************************************)
(* Model of bcpyaz/binary_callers.py: the sha512 scrubbing helper, the     *)
(* direct loader bcp, the connection-descriptor parser, the blob-staged    *)
(* loader bcpaz and the command runner sqlcmd.                             *)
(*                                                                         *)
(* A Python str is a sequence of symbols.  In a connection descriptor and  *)
(* in a path the symbols ";", "=" and "/" are the single characters the    *)
(* code inspects, and every other symbol is an atom standing for a run of  *)
(* characters none of which is one of those; in other texts an atom is a   *)
(* run of characters the code never looks into.                            *)
(* A Python value is a record [t, v]: t is the type, v the str's symbols.  *)
(***************************************************************************)
EXTENDS Integers, Sequences, FiniteSets, TLC

\* ------------------------------------------------------------- bounds
MaxLen == 5
MaxLines == 4

\* ------------------------------------------------------ Python values
PyNone == [t |-> "None", v |-> <<>>]
PyStr(s) == [t |-> "str", v |-> s]
PyObj(s) == [t |-> "object", v |-> s]

\* All sequences over S of length at most n.
SeqsUpTo(S, n) == UNION {[1..k -> S] : k \in 0..n}

\* ------------------------------------------------------- str methods
\* sub in s
Contains(s, sub) ==
    \E i \in 1..(Len(s) - Len(sub) + 1) : SubSeq(s, i, i + Len(sub) - 1) = sub

\* s.startswith(sub)
StartsWith(s, sub) == Len(sub) <= Len(s) /\ SubSeq(s, 1, Len(sub)) = sub

\* The first place in s at or after `from` where sub occurs, 0 when none.
FirstAt(s, sub, from) ==
    LET at == {i \in from..(Len(s) - Len(sub) + 1) : SubSeq(s, i, i + Len(sub) - 1) = sub}
    IN  IF at = {} THEN 0 ELSE CHOOSE i \in at : \A j \in at : i <= j

\* s.replace(old, new): left to right, non-overlapping; an empty `old`
\* matches before every character and at the end.
RECURSIVE Replace(_, _, _)
Replace(s, old, new) ==
    IF old = <<>>
    THEN IF s = <<>> THEN new ELSE new \o <<Head(s)>> \o Replace(Tail(s), old, new)
    ELSE LET i == FirstAt(s, old, 1)
         IN  IF i = 0 THEN s
             ELSE SubSeq(s, 1, i - 1) \o new
                  \o Replace(SubSeq(s, i + Len(old), Len(s)), old, new)

\* s.rstrip(ch): every trailing ch is removed.
RECURSIVE RStrip(_, _)
RStrip(s, ch) ==
    IF s # <<>> /\ s[Len(s)] = ch THEN RStrip(SubSeq(s, 1, Len(s) - 1), ch) ELSE s

\* s.split(sep): all the pieces, empty ones included.
RECURSIVE Split(_, _)
Split(s, sep) ==
    IF \E i \in 1..Len(s) : s[i] = sep
    THEN LET i == CHOOSE j \in 1..Len(s) : s[j] = sep /\ \A k \in 1..(j - 1) : s[k] # sep
         IN  <<SubSeq(s, 1, i - 1)>> \o Split(SubSeq(s, i + 1, Len(s)), sep)
    ELSE <<s>>

\* s.split(sep) with no maxsplit: every sep cuts.
SplitAll(s, sep) == Split(s, sep)

\* s.split(sep, 1): cut at the first sep only.
SplitOnce(s, sep) ==
    IF \E i \in 1..Len(s) : s[i] = sep
    THEN LET i == CHOOSE j \in 1..Len(s) : s[j] = sep /\ \A k \in 1..(j - 1) : s[k] # sep
         IN  <<SubSeq(s, 1, i - 1), SubSeq(s, i + 1, Len(s))>>
    ELSE <<s>>

\* dict(pairs): a later pair with the same key replaces an earlier one.
Dict(pairs) ==
    [k \in {pairs[i][1] : i \in 1..Len(pairs)} |->
        pairs[CHOOSE i \in 1..Len(pairs) :
                 pairs[i][1] = k /\ \A j \in (i + 1)..Len(pairs) : pairs[j][1] # k][2]]

\* An outcome of a call: a returned value or a raised exception.
Return(val) == [kind |-> "return", value |-> val]
Raise(type, args) == [kind |-> "raise", type |-> type, args |-> args]

\* ------------------------------------------ parse_blob_connection_str
MalformedMsg == <<"Connection string is either blank or malformed.">>

parse_blob_connection_str(conn_str) ==
    LET stripped == RStrip(conn_str, ";")
        segments == Split(stripped, ";")
        conn_settings == [i \in 1..Len(segments) |-> SplitOnce(segments[i], "=")]
    IN  IF \E i \in 1..Len(conn_settings) : Len(conn_settings[i]) # 2
        THEN Raise("ValueError", <<PyStr(MalformedMsg)>>)
        ELSE Return(Dict(conn_settings))

\* -------------------------------------------------------------- sha512
\* hashlib's hexdigest, abstracted: a string of hex digits computed symbol
\* by symbol, one-to-one on the passwords of the model and sharing no
\* symbol with them.
HexOf(sym) ==
    CASE sym = "p" -> <<"7", "0">>
      [] sym = "w" -> <<"7", "7">>
      [] OTHER     -> <<"f", "f">>

RECURSIVE hexdigest(_)
hexdigest(s) == IF s = <<>> THEN <<"c", "f">> ELSE HexOf(Head(s)) \o hexdigest(Tail(s))

sha512(text) ==
    IF text.t \in {"bytes", "str"}
    THEN Return(PyStr(hexdigest(text.v)))
    ELSE Raise("ValueError", <<PyStr(<<"Invalid input. Cannot compute hash.">>)>>)

\* ------------------------------------------------- subprocess results
\* repr of a list of str arguments.
RECURSIVE ReprArgs(_)
ReprArgs(args) ==
    IF args = <<>> THEN <<>>
    ELSE <<"'">> \o Head(args).v \o <<"'">>
         \o (IF Len(args) > 1 THEN <<", ">> ELSE <<>>) \o ReprArgs(Tail(args))

\* The text of a captured stream: fields joined by ",", lines ended by "\n".
RECURSIVE JoinFields(_)
JoinFields(line) ==
    IF line = <<>> THEN <<>>
    ELSE <<Head(line)>> \o (IF Len(line) > 1 THEN <<",">> ELSE <<>>) \o JoinFields(Tail(line))

RECURSIVE JoinLines(_)
JoinLines(lines) ==
    IF lines = <<>> THEN <<>> ELSE JoinFields(Head(lines)) \o <<"\\n">> \o JoinLines(Tail(lines))

\* The captured streams of a result, as its repr shows them.
RECURSIVE ReprStreams(_)
ReprStreams(streams) ==
    IF streams = <<>> THEN <<>>
    ELSE <<", ", Head(streams).name, "=b'">> \o JoinLines(Head(streams).lines) \o <<"'">>
         \o ReprStreams(Tail(streams))

\* str(result) of a subprocess.CompletedProcess: the arguments, the return
\* code and the streams that were captured.
StrCompletedProcess(args, returncode, streams) ==
    <<"CompletedProcess(args=[">> \o ReprArgs(args) \o <<"], returncode=", returncode>>
        \o ReprStreams(streams) \o <<")">>

\* subprocess.run refuses an argument list that holds a non-str.
AllStr(args) == \A i \in 1..Len(args) : args[i].t = "str"

ArgTypeError == Raise("TypeError", <<PyStr(<<"expected str, bytes or os.PathLike object">>)>>)

\* ----------------------------------------------------------------- bcp
BcpFailedMsg == <<"Bcp command failed. Details:\\n">>

\* The except clause of bcp: each str argument of e scrubbed, the others kept.
\* The replacement evaluates sha512(password) for each str argument.
ScrubArgs(e, password) ==
    IF \E i \in 1..Len(e.args) : e.args[i].t = "str"
    THEN IF sha512(password).kind = "raise"
         THEN sha512(password)
         ELSE IF password.t # "str"
              THEN Raise("TypeError", <<PyStr(<<"replace() argument 1 must be str">>)>>)
              ELSE Raise(e.type,
                         [i \in 1..Len(e.args) |->
                             IF e.args[i].t = "str"
                             THEN PyStr(Replace(e.args[i].v, password.v,
                                                sha512(password).value.v))
                             ELSE e.args[i]])
    ELSE Raise(e.type, e.args)

\* bcp(sql_table, flat_file, batch_size) with the subprocess answering proc.
\* The result: the outcome, and the command when a subprocess was started.
bcp(sql_table, flat_file, batch_size, proc) ==
    LET auth == IF sql_table.with_krb_auth
                THEN <<PyStr(<<"-T">>)>>
                ELSE <<PyStr(<<"-U">>), sql_table.username,
                       PyStr(<<"-P">>), sql_table.password>>
        full_table_string == sql_table.schema \o <<".">> \o sql_table.table
        fmt == flat_file.format_file_path
        bcp_command ==
            <<PyStr(<<"bcp">>), PyStr(full_table_string), PyStr(<<"IN">>),
              PyStr(flat_file.path), PyStr(<<"-f">>), fmt.value, PyStr(<<"-S">>),
              PyStr(sql_table.server), PyStr(<<"-d">>), PyStr(sql_table.database),
              PyStr(<<"-b">>), PyStr(batch_size)>> \o auth
            \o (IF flat_file.file_has_header_line
                THEN <<PyStr(<<"-F">>), PyStr(<<"2">>), PyStr(<<"-q">>), PyStr(<<"-k">>)>>
                ELSE <<>>)
    IN  IF fmt.kind = "raise"
        THEN [outcome |-> ScrubArgs(fmt, sql_table.password), started |-> FALSE,
              command |-> <<>>]
        ELSE IF ~AllStr(bcp_command)
        THEN [outcome |-> ArgTypeError, started |-> FALSE, command |-> <<>>]
        ELSE IF proc.returncode # "0"
        THEN [outcome |-> Raise("Exception",
                  <<PyStr(BcpFailedMsg \o StrCompletedProcess(bcp_command, proc.returncode,
                      <<[name |-> "stderr", lines |-> proc.stderr]>>))>>),
              started |-> TRUE, command |-> bcp_command]
        ELSE [outcome |-> Return(PyNone), started |-> TRUE, command |-> bcp_command]

\* -------------------------------------------------------------- sqlcmd
SqlcmdFailedMsg == <<"Sqlcmd command failed. Details:\\n">>

\* Symbols that are not ASCII: bytes.decode('ascii') refuses them.
NonAscii == {"0xE9"}

decode_ascii(lines) ==
    IF \E i \in 1..Len(lines) : \E j \in 1..Len(lines[i]) : lines[i][j] \in NonAscii
    THEN Raise("UnicodeDecodeError", <<PyStr(<<"'ascii' codec can't decode byte">>)>>)
    ELSE Return(lines)

\* The file lines (numbered from 0) that skiprows names.
SkipRowsNone == {}
SkipRows == {1}

RECURSIVE KeepLines(_, _, _)
KeepLines(lines, n, skiprows) ==
    IF lines = <<>> THEN <<>>
    ELSE (IF n \in skiprows THEN <<>> ELSE <<Head(lines)>>)
         \o KeepLines(Tail(lines), n + 1, skiprows)

NotBlank(line) == line # <<>>

\* pandas.read_csv(buffer, skiprows=..., header=...) on lines of equally many
\* fields: the named lines and the blank lines are dropped; with 'infer' the
\* first line left names the columns, with None the columns are numbered.
read_csv(lines, skiprows, header) ==
    LET kept == SelectSeq(KeepLines(lines, 0, skiprows), NotBlank)
    IN  IF kept = <<>>
        THEN Raise("EmptyDataError", <<PyStr(<<"No columns to parse from file">>)>>)
        ELSE IF header = "infer"
        THEN Return([t |-> "DataFrame", columns |-> Head(kept), rows |-> Tail(kept)])
        ELSE Return([t |-> "DataFrame",
                     columns |-> [i \in 1..Len(Head(kept)) |-> ToString(i - 1)],
                     rows |-> kept])

Truthy(x) == x.t # "None" /\ x.v # <<>>

\* sqlcmd(server, database, command, username, password) with the
\* subprocess answering proc.
sqlcmd(server, database, command, username, password, proc) ==
    LET auth == IF ~Truthy(username) \/ ~Truthy(password)
                THEN <<PyStr(<<"-E">>)>>
                ELSE <<PyStr(<<"-U">>), username, PyStr(<<"-P">>), password>>
        command1 == <<"set nocount on;">> \o command
        sqlcmd_command ==
            <<PyStr(<<"sqlcmd">>), PyStr(<<"-S">>), PyStr(server), PyStr(<<"-d">>),
              PyStr(database), PyStr(<<"-b">>)>> \o auth
            \o <<PyStr(<<"-I">>), PyStr(<<"-s,">>), PyStr(<<"-W">>), PyStr(<<"-Q">>),
                 PyStr(command1)>>
        decoded == decode_ascii(proc.stdout)
        output == decoded.value
        header == IF output = <<>> \/ Head(output) = <<>> THEN "None" ELSE "infer"
        table == read_csv(output, SkipRows, header)
    IN  IF ~AllStr(sqlcmd_command) THEN ArgTypeError
        ELSE IF proc.returncode # "0"
        THEN IF sha512(password).kind = "raise" THEN sha512(password)
             ELSE IF password.t # "str"
             THEN Raise("TypeError", <<PyStr(<<"replace() argument 1 must be str">>)>>)
             ELSE Raise("Exception",
                    <<PyStr(SqlcmdFailedMsg
                            \o Replace(StrCompletedProcess(sqlcmd_command, proc.returncode,
                                           <<[name |-> "stdout", lines |-> proc.stdout],
                                             [name |-> "stderr", lines |-> proc.stderr]>>),
                                       password.v, sha512(password).value.v))>>)
        ELSE IF decoded.kind = "raise" THEN decoded
        ELSE IF table.kind = "raise" /\ table.type = "EmptyDataError" THEN Return(PyNone)
        ELSE table

\* ------------------------------------------------------------- state
VARIABLES
    conn_str,      \* SpecParse: the argument of parse_blob_connection_str
    parsed,        \* SpecParse: its outcome, or Pending
    bcp_in,        \* SpecBcp: the arguments of bcp
    bcp_out,       \* SpecBcp: its result, or Pending
    sqlcmd_in,     \* SpecSqlcmd: the arguments of sqlcmd
    sqlcmd_out,    \* SpecSqlcmd: its outcome and the subprocess's answer, or Pending
    pc,            \* Spec: where each caller's bcpaz call stands
    call,          \* Spec: the arguments of each caller's bcpaz call
    conn_string,   \* Spec: bcpaz's local conn_string
    blob_conn,     \* Spec: bcpaz's local blob_conn
    sas,           \* Spec: bcpaz's local sas
    sql,           \* Spec: bcpaz's local sql, the load statement
    exc,           \* Spec: the exception a call ended with, or Pending
    steps,         \* Spec: the steps a call has invoked, in order
    results,       \* Spec: how each invoked step ended, "ok" or "raise"
    blobs          \* Spec: the container: blob name -> blob, or Absent

Pending == [kind |-> "pending"]

parseVars == <<conn_str, parsed>>
bcpVars == <<bcp_in, bcp_out>>
sqlcmdVars == <<sqlcmd_in, sqlcmd_out>>
bcpazVars == <<pc, call, conn_string, blob_conn, sas, sql, exc, steps, results, blobs>>
vars == <<parseVars, bcpVars, sqlcmdVars, bcpazVars>>

\* The state of a component that a specification leaves out.
IdleParse == conn_str = <<>> /\ parsed = Pending
IdleBcp == bcp_in = Pending /\ bcp_out = Pending
IdleSqlcmd == sqlcmd_in = Pending /\ sqlcmd_out = Pending
IdleBcpaz ==
    /\ pc = <<>> /\ call = <<>> /\ conn_string = <<>> /\ blob_conn = <<>> /\ sas = <<>>
    /\ sql = <<>> /\ exc = <<>> /\ steps = <<>> /\ results = <<>> /\ blobs = <<>>

\* The credentials a caller may hold.
Usernames == {PyNone, PyStr(<<"sa">>)}
Passwords == {PyNone, PyStr(<<>>), PyStr(<<"p">>), PyStr(<<"p", "w">>)}

\* --------------------------------------------------------- SpecParse
ParseAlphabet == {"k", "v", "=", ";"}

InitParse ==
    /\ conn_str \in SeqsUpTo(ParseAlphabet, MaxLen)
    /\ parsed = Pending
    /\ IdleBcp /\ IdleSqlcmd /\ IdleBcpaz

ParseCall ==
    /\ parsed = Pending
    /\ parsed' = parse_blob_connection_str(conn_str)
    /\ UNCHANGED <<conn_str, bcpVars, sqlcmdVars, bcpazVars>>

NextParse == ParseCall

SpecParse == InitParse /\ [][NextParse]_vars

\* The descriptor without its trailing ";": the prefix that does not end
\* in ";" and is followed by ";" only.
WithoutTrailing(s) ==
    LET n == CHOOSE m \in 0..Len(s) :
                 /\ (m = 0 \/ s[m] # ";")
                 /\ \A i \in (m + 1)..Len(s) : s[i] = ";"
    IN  SubSeq(s, 1, n)

\* The descriptor without one trailing ";", when it has one.
WithoutOneTrailing(s) ==
    IF s # <<>> /\ s[Len(s)] = ";" THEN SubSeq(s, 1, Len(s) - 1) ELSE s

\* t[a..b] is a maximal ";"-free stretch of t (b = a - 1: an empty one).
IsSegment(t, a, b) ==
    /\ a \in 1..(Len(t) + 1) /\ b \in (a - 1)..Len(t)
    /\ (a = 1 \/ t[a - 1] = ";")
    /\ (b = Len(t) \/ t[b + 1] = ";")
    /\ \A i \in a..b : t[i] # ";"

SegmentsOf(t) ==
    {ab \in (1..(Len(t) + 1)) \X (0..Len(t)) : IsSegment(t, ab[1], ab[2])}

CountEq(t, ab) == Cardinality({i \in ab[1]..ab[2] : t[i] = "="})

FirstEq(t, ab) == CHOOSE i \in ab[1]..ab[2] : t[i] = "=" /\ \A j \in ab[1]..(i - 1) : t[j] # "="

KeyOf(t, ab) == SubSeq(t, ab[1], FirstEq(t, ab) - 1)
ValueOf(t, ab) == SubSeq(t, FirstEq(t, ab) + 1, ab[2])

\* The mapping of each segment's key to its value (the last segment of a key).
IsMappingOf(d, t) ==
    /\ DOMAIN d = {KeyOf(t, ab) : ab \in SegmentsOf(t)}
    /\ \A ab \in SegmentsOf(t) :
          (\A cd \in SegmentsOf(t) : cd[1] > ab[1] => KeyOf(t, cd) # KeyOf(t, ab))
              => d[KeyOf(t, ab)] = ValueOf(t, ab)

\* C5 as stated: with one optional trailing ";" removed, the mapping when
\* every segment holds exactly one "=", a ValueError otherwise.
C5_ExactlyOneEq ==
    parsed # Pending =>
        LET t == WithoutOneTrailing(conn_str)
        IN  IF \A ab \in SegmentsOf(t) : CountEq(t, ab) = 1
            THEN parsed.kind = "return" /\ IsMappingOf(parsed.value, t)
            ELSE parsed.kind = "raise" /\ parsed.type = "ValueError"

\* C5 amended: with every trailing ";" removed, the mapping of each
\* segment's text before its first "=" to the text after it when every
\* segment holds at least one "=", a ValueError when a segment holds none.
C5_AtLeastOneEq ==
    parsed # Pending =>
        LET t == WithoutTrailing(conn_str)
        IN  IF \A ab \in SegmentsOf(t) : CountEq(t, ab) >= 1
            THEN parsed.kind = "return" /\ IsMappingOf(parsed.value, t)
            ELSE parsed.kind = "raise" /\ parsed.type = "ValueError"

\* A descriptor was parsed into a mapping one of whose values holds "=".
C5_Witness ==
    /\ parsed # Pending /\ parsed.kind = "return"
    /\ \E k \in DOMAIN parsed.value : Contains(parsed.value[k], <<"=">>)

\* ----------------------------------------------------------- SpecBcp
\* What flat_file.get_format_file_path() does: return the path, or raise.
FormatFileOutcomes ==
    { Return(PyStr(<<"file.fmt">>)),
      Raise("OSError", <<PyStr(<<"login ", "p", "w", " rejected">>)>>),
      Raise("OSError", <<PyObj(<<"2">>)>>),
      Raise("OSError", <<PyObj(<<"2">>), PyStr(<<"No such file: ", "p">>)>>),
      Raise("OSError", <<>>) }

SqlTables ==
    [with_krb_auth : BOOLEAN, username : Usernames, password : Passwords,
     schema : {<<"dbo">>}, table : {<<"t">>}, server : {<<"srv">>},
     database : {<<"db">>}]

FlatFiles ==
    [path : {<<"dir", "/", "f.csv">>}, format_file_path : FormatFileOutcomes,
     file_has_header_line : BOOLEAN]

BcpProcs ==
    [returncode : {"0", "1"}, stderr : {<<>>, <<<<"Login failed">>>>}]

InitBcp ==
    /\ bcp_in \in [sql_table : SqlTables, flat_file : FlatFiles, batch_size : {<<"1000">>}]
    /\ bcp_out = Pending
    /\ IdleParse /\ IdleSqlcmd /\ IdleBcpaz

BcpCall ==
    /\ bcp_out = Pending
    /\ \E proc \in BcpProcs :
          bcp_out' = bcp(bcp_in.sql_table, bcp_in.flat_file, bcp_in.batch_size, proc)
    /\ UNCHANGED <<bcp_in, parseVars, sqlcmdVars, bcpazVars>>

NextBcp == BcpCall

SpecBcp == InitBcp /\ [][NextBcp]_vars

\* C1: a bcp call with username/password authentication whose subprocess
\* exits non-zero raises 'Bcp command failed ...' with a message that holds
\* the sha512 hash of the password and never the password itself.
C1_BcpFailureScrubbed ==
    (/\ bcp_out # Pending
     /\ bcp_out.started /\ bcp_out.outcome.kind = "raise"
     /\ ~bcp_in.sql_table.with_krb_auth
     /\ bcp_in.sql_table.password.v # <<>>)
    => LET msg == bcp_out.outcome.args[1].v
           P == bcp_in.sql_table.password.v
       IN  /\ StartsWith(msg, BcpFailedMsg)
           /\ Contains(msg, hexdigest(P))
           /\ ~Contains(msg, P)

\* C7: when building the command raises E, in either authentication mode,
\* what propagates is E with each str argument scrubbed of the password and
\* each other argument unchanged, never another error, and no subprocess
\* is started.
C7_BuildErrorScrubbed ==
    (/\ bcp_out # Pending /\ bcp_in.flat_file.format_file_path.kind = "raise"
     /\ \/ ~bcp_in.sql_table.with_krb_auth /\ bcp_in.sql_table.password.t = "str"
        \/ bcp_in.sql_table.with_krb_auth /\ bcp_in.sql_table.password = PyNone)
    => LET E == bcp_in.flat_file.format_file_path
           P == bcp_in.sql_table.password
           out == bcp_out.outcome
       IN  /\ ~bcp_out.started
           /\ out.kind = "raise" /\ out.type = E.type
           /\ Len(out.args) = Len(E.args)
           /\ \A i \in 1..Len(E.args) :
                 IF E.args[i].t = "str" /\ P.t = "str"
                 THEN out.args[i] = PyStr(Replace(E.args[i].v, P.v, hexdigest(P.v)))
                 ELSE out.args[i] = E.args[i]

\* -------------------------------------------------------- SpecSqlcmd
\* The lines the client may print: blank, a header, the separator, rows,
\* and a row holding a byte that is not ASCII.
StdoutLines ==
    { <<>>, <<"colA", "colB">>, <<"-", "-">>, <<"1", "x">>, <<"2", "y">>,
      <<"0xE9", "z">> }

SqlcmdProcs ==
    [returncode : {"0"}, stdout : SeqsUpTo(StdoutLines, MaxLines), stderr : {<<>>}]
    \cup
    [returncode : {"1"}, stdout : SeqsUpTo(StdoutLines, MaxLines),
     stderr : {<<<<"Msg 102">>>>}]

InitSqlcmd ==
    /\ sqlcmd_in \in [server : {<<"srv">>}, database : {<<"db">>},
                      command : {<<"select ", "p", "w">>},
                      username : Usernames, password : Passwords]
    /\ sqlcmd_out = Pending
    /\ IdleParse /\ IdleBcp /\ IdleBcpaz

SqlcmdCall ==
    /\ sqlcmd_out = Pending
    /\ \E proc \in SqlcmdProcs :
          sqlcmd_out' =
              [outcome |-> sqlcmd(sqlcmd_in.server, sqlcmd_in.database,
                                  sqlcmd_in.command, sqlcmd_in.username,
                                  sqlcmd_in.password, proc),
               proc |-> proc]
    /\ UNCHANGED <<sqlcmd_in, parseVars, bcpVars, bcpazVars>>

NextSqlcmd == SqlcmdCall

SpecSqlcmd == InitSqlcmd /\ [][NextSqlcmd]_vars

\* C2: a sqlcmd call whose subprocess exits non-zero raises, in both
\* authentication modes, 'Sqlcmd command failed ...' and no other error, and
\* the message never holds the password.
C2_SqlcmdFailureScrubbed ==
    (sqlcmd_out # Pending /\ sqlcmd_out.proc.returncode # "0")
    => LET out == sqlcmd_out.outcome
           P == sqlcmd_in.password
       IN  /\ out.kind = "raise" /\ out.type = "Exception"
           /\ StartsWith(out.args[1].v, SqlcmdFailedMsg)
           /\ (P.t = "str" /\ P.v # <<>>) => ~Contains(out.args[1].v, P.v)

IsAscii(lines) == \A i \in 1..Len(lines) : \A j \in 1..Len(lines[i]) : lines[i][j] \notin NonAscii

\* What C9 says of a sqlcmd call that exited zero with the given stdout.
C9_ResultOf(stdout, out) ==
    /\ stdout = <<>> => out = Return(PyNone)
    /\ (stdout # <<>> /\ Head(stdout) # <<>>) =>
          /\ out.kind = "return" /\ out.value.t = "DataFrame"
          /\ out.value.columns = stdout[1]
          /\ out.value.rows = SelectSeq(SubSeq(stdout, 3, Len(stdout)), NotBlank)

Callers == {"A", "B"}

Absent == [owner |-> "nobody", data |-> <<>>]

\* os.path.basename: what follows the last "/".
RECURSIVE basename(_)
basename(path) ==
    IF \E i \in 1..Len(path) : path[i] = "/" THEN basename(Tail(path)) ELSE path

\* The connection descriptors a caller may pass.
PlainDescriptor == <<"AccountName", "=", "acct", ";", "AccountKey", "=", "key">>
Descriptors ==
    { <<>>,
      PlainDescriptor,
      PlainDescriptor \o <<";">>,
      <<"AccountName", "=", "arcturusdevstgacc", ";", "AccountKey", "=", "key", ";",
        "EndpointSuffix", "=", "core.windows.net">>,
      <<"BlobEndpoint", "=", "url">> }

BcpazCalls ==
    [sql_table : [username : {PyStr(<<"sa">>)}, password : {PyNone, PyStr(<<"p", "w">>)},
                  schema : {<<"dbo">>}, table : {<<"t">>}, server : {<<"srv">>},
                  database : {<<"db">>}],
     flat_file : [path : {<<"dir", "/", "f.csv">>, <<"g.csv">>}],
     azure_storage_connection_string : Descriptors,
     azure_temp_storage_container : {<<"tmp">>}]

BlobNames == {basename(a.flat_file.path) : a \in BcpazCalls}

blob_name(c) == basename(call[c].flat_file.path)

Init ==
    /\ pc = [c \in Callers |-> "idle"]
    /\ call = [c \in Callers |-> Pending]
    /\ conn_string = [c \in Callers |-> <<>>]
    /\ blob_conn = [c \in Callers |-> Pending]
    /\ sas = [c \in Callers |-> Pending]
    /\ sql = [c \in Callers |-> Pending]
    /\ exc = [c \in Callers |-> Pending]
    /\ steps = [c \in Callers |-> <<>>]
    /\ results = [c \in Callers |-> <<>>]
    /\ blobs = [n \in BlobNames |-> Absent]
    /\ IdleParse /\ IdleBcp /\ IdleSqlcmd

\* A step of caller c's call succeeded: on to `next`.
StepOk(c, step, next) ==
    /\ pc' = [pc EXCEPT ![c] = next]
    /\ steps' = [steps EXCEPT ![c] = Append(@, step)]
    /\ results' = [results EXCEPT ![c] = Append(@, "ok")]
    /\ UNCHANGED exc

\* A step of caller c's call raised e: the call ends, e propagates.
StepRaise(c, step, e) ==
    /\ pc' = [pc EXCEPT ![c] = "raised"]
    /\ steps' = [steps EXCEPT ![c] = Append(@, step)]
    /\ results' = [results EXCEPT ![c] = Append(@, "raise")]
    /\ exc' = [exc EXCEPT ![c] = e]

\* bcpaz is called: the descriptor gets its trailing "/" (lines 85-91).
Call(c) ==
    /\ pc[c] \in {"idle", "returned", "raised"}
    /\ \E a \in BcpazCalls :
          /\ call' = [call EXCEPT ![c] = a]
          /\ LET s == a.azure_storage_connection_string
             IN  IF s = <<>>
                 THEN /\ pc' = [pc EXCEPT ![c] = "raised"]
                      /\ exc' = [exc EXCEPT ![c] =
                                   Raise("IndexError", <<PyStr(<<"string index out of range">>)>>)]
                      /\ conn_string' = [conn_string EXCEPT ![c] = s]
                 ELSE /\ pc' = [pc EXCEPT ![c] = "upload"]
                      /\ exc' = [exc EXCEPT ![c] = Pending]
                      /\ conn_string' = [conn_string EXCEPT ![c] =
                                           IF s[Len(s)] # "/" THEN s \o <<"/">> ELSE s]
    /\ steps' = [steps EXCEPT ![c] = <<>>]
    /\ results' = [results EXCEPT ![c] = <<>>]
    /\ blob_conn' = [blob_conn EXCEPT ![c] = Pending]
    /\ sas' = [sas EXCEPT ![c] = Pending]
    /\ sql' = [sql EXCEPT ![c] = Pending]
    /\ UNCHANGED <<blobs, parseVars, bcpVars, sqlcmdVars>>

\* upload_blob(data, overwrite=True): the blob is replaced when it exists.
UploadOverwrite(c) ==
    /\ pc[c] = "upload"
    /\ \/ /\ StepRaise(c, "upload", Raise("OSError", <<PyStr(<<"upload failed">>)>>))
          /\ UNCHANGED blobs
       \/ /\ StepOk(c, "upload", "parse")
          /\ blobs' = [blobs EXCEPT ![blob_name(c)] =
                          [owner |-> c, data |-> call[c].flat_file.path]]
    /\ UNCHANGED <<call, conn_string, blob_conn, sas, sql, parseVars, bcpVars, sqlcmdVars>>

\* Step 1: the file is opened and blob.upload_blob(data) is called.  The
\* call passes no `overwrite`, and the client's default is overwrite=False:
\* the service refuses the upload of a blob that exists (ResourceExistsError).
\* The open or the transfer may fail as well.
Upload(c) ==
    /\ pc[c] = "upload"
    /\ \/ /\ StepRaise(c, "upload", Raise("OSError", <<PyStr(<<"upload failed">>)>>))
          /\ UNCHANGED blobs
       \/ /\ blobs[blob_name(c)] # Absent
          /\ StepRaise(c, "upload",
                       Raise("ResourceExistsError", <<PyStr(<<"The specified blob already exists.">>)>>))
          /\ UNCHANGED blobs
       \/ /\ blobs[blob_name(c)] = Absent
          /\ StepOk(c, "upload", "parse")
          /\ blobs' = [blobs EXCEPT ![blob_name(c)] =
                          [owner |-> c, data |-> call[c].flat_file.path]]
    /\ UNCHANGED <<call, conn_string, blob_conn, sas, sql, parseVars, bcpVars, sqlcmdVars>>

\* Step 2: blob_conn = parse_blob_connection_str(conn_string).
ParseDescriptor(c) ==
    /\ pc[c] = "parse"
    /\ LET r == parse_blob_connection_str(conn_string[c])
       IN  IF r.kind = "raise"
           THEN StepRaise(c, "parse", r) /\ UNCHANGED blob_conn
           ELSE StepOk(c, "parse", "mint") /\ blob_conn' = [blob_conn EXCEPT ![c] = r.value]
    /\ UNCHANGED <<call, conn_string, sas, sql, blobs, parseVars, bcpVars, sqlcmdVars>>

BlobSasPermissions ==
    {"read", "add", "create", "write", "delete", "delete_previous_version", "tag"}

\* Step 3: generate_container_sas from blob_conn['AccountName'] and
\* blob_conn['AccountKey'], expiring 24 hours from now.
MintSas(c) ==
    /\ pc[c] = "mint"
    /\ IF {<<"AccountName">>, <<"AccountKey">>} \subseteq DOMAIN blob_conn[c]
       THEN /\ StepOk(c, "mint", "load")
            /\ sas' = [sas EXCEPT ![c] =
                         [account_name |-> blob_conn[c][<<"AccountName">>],
                          account_key |-> blob_conn[c][<<"AccountKey">>],
                          container_name |-> call[c].azure_temp_storage_container,
                          permission |-> BlobSasPermissions,
                          expiry_hours |-> 24]]
       ELSE /\ StepRaise(c, "mint", Raise("KeyError", <<PyStr(<<"AccountName">>)>>))
            /\ UNCHANGED sas
    /\ UNCHANGED <<call, conn_string, blob_conn, sql, blobs, parseVars, bcpVars, sqlcmdVars>>

\* The token text of a shared-access signature.
SasToken(x) ==
    <<"se=+24h&sp=racwdxt&sr=c&sn=">> \o x.container_name \o <<"&sig(">> \o x.account_name
        \o <<",">> \o x.account_key \o <<")">>

\* The account in the URL of the load statement.
UrlAccount == <<"arcturusdevstgacc">>

\* The load statement (lines 110-130): its source URL, its secret, its text.
LoadStatement(c) ==
    LET url == [account |-> UrlAccount,
                container |-> call[c].azure_temp_storage_container,
                blob |-> blob_name(c)]
    IN  [url |-> url,
         secret |-> sas[c],
         text |-> <<"COPY INTO [">> \o call[c].sql_table.schema \o <<"].[">>
                  \o call[c].sql_table.table \o <<"] FROM 'https://">> \o url.account
                  \o <<".blob.core.windows.net/">> \o url.container \o <<"/">> \o url.blob
                  \o <<"' WITH (FILE_TYPE = 'CSV', CREDENTIAL=(IDENTITY= 'Shared Access Signature', SECRET='">>
                  \o SasToken(sas[c])
                  \o <<"'), FIELDQUOTE = '\"', FIELDTERMINATOR=',', FIRSTROW=2, ROWTERMINATOR='0X0A', ENCODING = 'UTF8', MAXERRORS = 0, ERRORFILE = '/errorsfolder_">>
                  \o url.blob \o <<"')">>]

\* What the sqlcmd subprocess may answer to the load statement.
LoadProcs ==
    { [returncode |-> "0", stdout |-> <<>>, stderr |-> <<>>],
      [returncode |-> "1", stdout |-> <<>>, stderr |-> <<<<"Msg 13822">>>>] }

\* Steps 4-5 as they would be with a cleanup on failure: the blob is deleted
\* before the failure of the load statement propagates.
LoadThenCleanup(c) ==
    /\ pc[c] = "load"
    /\ sql' = [sql EXCEPT ![c] = LoadStatement(c)]
    /\ \E proc \in LoadProcs :
          LET r == sqlcmd(call[c].sql_table.server, call[c].sql_table.database,
                          LoadStatement(c).text, call[c].sql_table.username,
                          call[c].sql_table.password, proc)
          IN  IF r.kind = "raise"
              THEN /\ pc' = [pc EXCEPT ![c] = "raised"]
                   /\ steps' = [steps EXCEPT ![c] = @ \o <<"load", "delete">>]
                   /\ results' = [results EXCEPT ![c] = @ \o <<"raise", "ok">>]
                   /\ exc' = [exc EXCEPT ![c] = r]
                   /\ blobs' = [blobs EXCEPT ![blob_name(c)] = Absent]
              ELSE StepOk(c, "load", "delete") /\ UNCHANGED blobs
    /\ UNCHANGED <<call, conn_string, blob_conn, sas, parseVars, bcpVars, sqlcmdVars>>

\* Steps 4-5: the load statement is built and run through sqlcmd.
Load(c) ==
    /\ pc[c] = "load"
    /\ sql' = [sql EXCEPT ![c] = LoadStatement(c)]
    /\ \E proc \in LoadProcs :
          LET r == sqlcmd(call[c].sql_table.server, call[c].sql_table.database,
                          LoadStatement(c).text, call[c].sql_table.username,
                          call[c].sql_table.password, proc)
          IN  IF r.kind = "raise" THEN StepRaise(c, "load", r) ELSE StepOk(c, "load", "delete")
    /\ UNCHANGED <<call, conn_string, blob_conn, sas, blobs, parseVars, bcpVars, sqlcmdVars>>

\* Step 6: blob.delete_blob().  The request may fail; otherwise the blob of
\* that name, which the call's own upload created, is removed.
DeleteBlob(c) ==
    /\ pc[c] = "delete"
    /\ \/ /\ StepRaise(c, "delete", Raise("ServiceRequestError", <<PyStr(<<"delete failed">>)>>))
          /\ UNCHANGED blobs
       \/ /\ blobs[blob_name(c)] # Absent
          /\ StepOk(c, "delete", "returned")
          /\ blobs' = [blobs EXCEPT ![blob_name(c)] = Absent]
    /\ UNCHANGED <<call, conn_string, blob_conn, sas, sql, parseVars, bcpVars, sqlcmdVars>>

Next ==
    \E c \in Callers :
        \/ Call(c)
        \/ Upload(c)
        \/ ParseDescriptor(c)
        \/ MintSas(c)
        \/ Load(c)
        \/ DeleteBlob(c)

Spec == Init /\ [][Next]_vars

Ended(c) == pc[c] \in {"returned", "raised"}

\* Caller c's running or ended call got its blob uploaded.
Uploaded(c) == Len(results[c]) >= 1 /\ results[c][1] = "ok"

\* C3: once a bcpaz call has ended, on any exit path, the blob the call
\* uploaded no longer exists in the container.
C3_BlobGoneAfterCall ==
    \A c \in Callers :
        (Ended(c) /\ Uploaded(c)) => blobs[blob_name(c)].owner # c

StepOrder == <<"upload", "parse", "mint", "load", "delete">>

\* C4: the steps of a call run in the order upload, parse, mint, load,
\* delete; a step is invoked only after every earlier one succeeded, so a
\* failure is the call's last step and propagates; delete_blob is invoked
\* exactly when the four earlier steps succeeded, and a call returns only
\* after all five.
C4_StepOrdering ==
    \A c \in Callers :
        /\ Len(steps[c]) <= Len(StepOrder)
        /\ steps[c] = SubSeq(StepOrder, 1, Len(steps[c]))
        /\ Len(results[c]) = Len(steps[c])
        /\ \A i \in 1..(Len(steps[c]) - 1) : results[c][i] = "ok"
        /\ (pc[c] = "raised" /\ steps[c] # <<>>) =>
              /\ results[c][Len(steps[c])] = "raise"
              /\ exc[c] # Pending /\ exc[c].kind = "raise"
        /\ pc[c] = "returned" => (steps[c] = StepOrder /\ results[c][Len(StepOrder)] = "ok")
        /\ Ended(c) =>
              ((\E i \in 1..Len(steps[c]) : steps[c][i] = "delete")
                  <=> (Len(results[c]) >= 4 /\ \A i \in 1..4 : results[c][i] = "ok"))
        /\ pc[c] \in {"upload", "parse", "mint", "load", "delete"} =>
              /\ \A i \in 1..Len(steps[c]) : results[c][i] = "ok"
              /\ pc[c] = StepOrder[Len(steps[c]) + 1]

\* A call ended at a failed load statement, with no delete invoked.
C4_Witness ==
    \E c \in Callers :
        /\ pc[c] = "raised" /\ steps[c] = <<"upload", "parse", "mint", "load">>
        /\ \E d \in Callers : pc[d] = "returned" /\ steps[d] = StepOrder

WellFormedDescriptors == {PlainDescriptor, PlainDescriptor \o <<";">>}

\* C6: for a descriptor 'AccountName=N;AccountKey=K', with or without a
\* trailing ';', step 2 raises nothing and the credential is minted with
\* account name N and account key exactly K.
C6_DescriptorPairsExact ==
    \A c \in Callers :
        (/\ call[c] # Pending
         /\ call[c].azure_storage_connection_string \in WellFormedDescriptors
         /\ Len(steps[c]) >= 2)
        => /\ results[c][2] = "ok"
           /\ blob_conn[c] = (<<"AccountName">> :> <<"acct">>) @@ (<<"AccountKey">> :> <<"key">>)
           /\ sas[c] # Pending =>
                 (sas[c].account_name = <<"acct">> /\ sas[c].account_key = <<"key">>)

InFlight(c) == pc[c] \in {"parse", "mint", "load", "delete"}

C10_UrlNamesUploadedBlob ==
    \A c \in Callers :
        sql[c] # Pending =>
            /\ sql[c].url.account = blob_conn[c][<<"AccountName">>]
            /\ sql[c].url.container = call[c].azure_temp_storage_container
            /\ sql[c].url.blob = blob_name(c)

====
